---------------------------- MODULE Spec2Model ----------------------------
(***************************************************************************)
(* A model of cliesp (src/main.go): the path resolver, the snippet         *)
(* formatter and the run of main.                                           *)
(*                                                                         *)
(* Strings are sequences of one-character strings, so that prefixes,       *)
(* separators, extensions and escapes are computed, character by           *)
(* character, the way the Go code and its library calls compute them.      *)
(* The path functions are those of a Unix build: the only path separator   *)
(* is "/" (os.IsPathSeparator, filepath.Join, filepath.Clean,              *)
(* filepath.Ext).                                                          *)
(***************************************************************************)
EXTENDS Integers, Sequences, FiniteSets, TLC

VARIABLES
    home,       \* the process's home directory ($HOME), or NoHome when unset
    matchFlag,  \* -m | --matchFile
    cfg,        \* the AppConfig record in use
    triggers,   \* the trigger list handed to buildYAMLSnippet
    replaceStr, \* the replacement text handed to buildYAMLSnippet
    arg,        \* the argument of a direct call: expandHome's path, the
                \* $EDITOR or GOOS a pick function reads, runOpen's opener
    called,     \* the function the last step called ("" before any call)
    ret,        \* what that call returned
    calls,      \* how many times a function was called on its own
    stdin,      \* the lines on standard input when a multiline reader is called
    pc,         \* where the run of main stands ("idle": no run)
    exitCode,   \* the exit status, once pc = "exited"
    openFlag,   \* -o | --open
    dirFlag,    \* -d | --openDir
    filePath,   \* main's filePath: the resolved match file path
    fileKind,   \* what is at filePath: "absent", "file" or "dir"
    fileData,   \* the content of the file at filePath
    parentDirs, \* whether the directories above filePath exist
    fileBefore, \* fileKind, fileData and parentDirs when the run started
    prompts,    \* the prompts printed so far
    opened,     \* the opener command run, <<>> if none
    ensureRet,  \* what os.Stat answered in ensureFileWithHeader and whether
                \* the helper returned an error
    triggersLine, \* main's triggersLine: what prompt returned for the triggers
    runs,       \* the runs of main started on the target path
    fileOrigin, \* fileKind, fileData and parentDirs before the first run
    fragments   \* the entries of the runs that ended with "Appended", in order

callVars == <<home, matchFlag, cfg, triggers, replaceStr, arg, called, ret,
              calls, stdin>>
mainVars == <<pc, exitCode, openFlag, dirFlag, filePath, fileKind, fileData,
              parentDirs, fileBefore, prompts, opened, ensureRet, triggersLine,
              runs, fileOrigin, fragments>>
vars == <<callVars, mainVars>>

-----------------------------------------------------------------------------
(* Bounds of the model.                                                    *)

\* longest -m argument and longest expandHome argument tried
MaxPathLen == 5
\* longest replacement text tried
MaxReplaceLen == 3
\* most triggers in one entry
MaxTriggers == 2
\* most lines typed at the replacement prompt
MaxInputLines == 2
\* most calls in a row of a function called on its own
MaxCalls == 2
\* most bytes a failed write leaves written
MaxShortWrite == 2
\* most runs of main, one after the other, on one target path
MaxRuns == 2
\* most lines on standard input when a reader is called on its own
MaxStdinLines == 4
\* longest content of a file that is there before the first call
MaxContentLen == 3

-----------------------------------------------------------------------------
(* Characters and string constants.                                        *)

NL == "\n"
TAB == "\t"
DQ == "\""
BS == "\\"
SP == " "

\* The home directory is unset: os.UserHomeDir returns an error.
NoHome == "NoHome"

\* Strings over an alphabet, up to a length.
StringsUpTo(chars, n) == UNION {[1..k -> chars] : k \in 0..n}

\* defaultEspansoMatchDir = "~/Library/Application Support/espanso/match"
defaultEspansoMatchDir ==
    <<"~","/","L","i","b","r","a","r","y","/",
      "A","p","p","l","i","c","a","t","i","o","n"," ",
      "S","u","p","p","o","r","t","/",
      "e","s","p","a","n","s","o","/","m","a","t","c","h">>

\* defaultEspansoMatchFile = "cliesp.yml"
defaultEspansoMatchFile == <<"c","l","i","e","s","p",".","y","m","l">>

-----------------------------------------------------------------------------
(* package strings                                                         *)

\* strings.HasPrefix
HasPrefix(s, prefix) ==
    /\ Len(s) >= Len(prefix)
    /\ SubSeq(s, 1, Len(prefix)) = prefix

\* strings.TrimPrefix
TrimPrefix(s, prefix) ==
    IF HasPrefix(s, prefix) THEN SubSeq(s, Len(prefix) + 1, Len(s)) ELSE s

\* strings.Contains, for a one-character substring
Contains(s, c) == \E i \in 1..Len(s) : s[i] = c

\* index of the first c in s, 0 if there is none
IndexOf(s, c) ==
    IF Contains(s, c) THEN CHOOSE i \in 1..Len(s) :
                               s[i] = c /\ \A j \in 1..(i-1) : s[j] # c
    ELSE 0

\* strings.Split, for a one-character separator: Count(s, sep) + 1 segments
RECURSIVE Split(_, _)
Split(s, sep) ==
    IF ~Contains(s, sep) THEN <<s>>
    ELSE LET i == IndexOf(s, sep)
         IN  <<SubSeq(s, 1, i - 1)>> \o Split(SubSeq(s, i + 1, Len(s)), sep)

\* strings.Join
RECURSIVE StringsJoin(_, _)
StringsJoin(elems, sep) ==
    IF elems = <<>> THEN <<>>
    ELSE IF Len(elems) = 1 THEN elems[1]
    ELSE elems[1] \o sep \o StringsJoin(Tail(elems), sep)

-----------------------------------------------------------------------------
(* package path/filepath and os, Unix                                      *)

\* os.IsPathSeparator
IsPathSeparator(c) == c = "/"

\* The elements filepath.Clean keeps: it drops the empty ones and ".", and
\* lets ".." remove the element before it; at the start of a rooted path
\* ".." is dropped, at the start of a relative one it is kept.
RECURSIVE CleanElems(_, _, _)
CleanElems(elems, out, rooted) ==
    IF elems = <<>> THEN out
    ELSE LET e == Head(elems)
             rest == Tail(elems)
         IN  IF e = <<>> \/ e = <<".">> THEN CleanElems(rest, out, rooted)
             ELSE IF e = <<".", ".">> THEN
                 IF out # <<>> /\ out[Len(out)] # <<".", ".">>
                 THEN CleanElems(rest, SubSeq(out, 1, Len(out) - 1), rooted)
                 ELSE IF ~rooted THEN CleanElems(rest, Append(out, e), rooted)
                 ELSE CleanElems(rest, out, rooted)
             ELSE CleanElems(rest, Append(out, e), rooted)

\* filepath.Clean
Clean(path) ==
    IF path = <<>> THEN <<".">>
    ELSE LET rooted == path[1] = "/"
             kept == StringsJoin(CleanElems(Split(path, "/"), <<>>, rooted), <<"/">>)
         IN  IF rooted THEN <<"/">> \o kept
             ELSE IF kept = <<>> THEN <<".">>
             ELSE kept

\* filepath.Join of two elements: empty elements before the first non-empty
\* one are ignored, the rest is joined by "/" and cleaned.
FilepathJoin(a, b) ==
    IF a # <<>> THEN Clean(a \o <<"/">> \o b)
    ELSE IF b # <<>> THEN Clean(b)
    ELSE <<>>

\* filepath.Ext: the suffix from the last "." of the last element; empty if
\* that element has no ".".
RECURSIVE ExtFrom(_, _)
ExtFrom(path, i) ==
    IF i < 1 \/ IsPathSeparator(path[i]) THEN <<>>
    ELSE IF path[i] = "." THEN SubSeq(path, i, Len(path))
    ELSE ExtFrom(path, i - 1)

Ext(path) == ExtFrom(path, Len(path))

\* os.UserHomeDir on Unix: $HOME, or an error when it is unset or empty.
UserHomeDir ==
    IF home = NoHome THEN [val |-> <<>>, err |-> TRUE]
    ELSE [val |-> home, err |-> FALSE]

-----------------------------------------------------------------------------
(* main.go                                                                 *)

\* expandHome that puts the home directory in place of a leading "~" by plain
\* replacement (strings.Replace(path, "~", home, 1)), without filepath.Join
expandHomeReplace(path) ==
    IF HasPrefix(path, <<"~">>) THEN
        IF UserHomeDir.err THEN [val |-> <<>>, err |-> TRUE]
        ELSE [val |-> UserHomeDir.val \o Tail(path), err |-> FALSE]
    ELSE [val |-> path, err |-> FALSE]

\* func expandHome(path string) (string, error)
expandHome(path) ==
    IF path = <<"~">> THEN
        IF UserHomeDir.err THEN [val |-> <<>>, err |-> TRUE]
        ELSE [val |-> UserHomeDir.val, err |-> FALSE]
    ELSE IF HasPrefix(path, <<"~", "/">>) THEN
        IF UserHomeDir.err THEN [val |-> <<>>, err |-> TRUE]
        ELSE [val |-> FilepathJoin(UserHomeDir.val, TrimPrefix(path, <<"~", "/">>)),
              err |-> FALSE]
    ELSE [val |-> path, err |-> FALSE]

\* the directory fallback dropped: the built-in directory whatever is configured
effectiveDirDefaultOnly(c) == defaultEspansoMatchDir

\* dir := cfg.MatchDir; if dir == "" { dir = defaultEspansoMatchDir }
effectiveDir(c) ==
    IF c.MatchDir = <<>> THEN defaultEspansoMatchDir ELSE c.MatchDir

\* file := cfg.MatchFile; if file == "" { file = defaultEspansoMatchFile }
effectiveFile(c) ==
    IF c.MatchFile = <<>> THEN defaultEspansoMatchFile ELSE c.MatchFile

\* the flag branch without the extension test: the file name always appended
resolveExpandedNoExt(p, file) == FilepathJoin(p, file)

\* The branch of resolveMatchPath for a flag path p after home expansion.
resolveExpanded(p, file) ==
    IF Len(p) > 0 /\ IsPathSeparator(p[Len(p)]) THEN FilepathJoin(p, file)
    ELSE IF Ext(p) # <<>> THEN p
    ELSE FilepathJoin(p, file)

\* resolveMatchPath that keeps what it resolved in a package-level variable
\* and, called again, joins the file name onto that instead of resolving anew
resolveMatchPathCached(flagPath, c) ==
    LET dir == effectiveDir(c)
        file == effectiveFile(c)
    IN  IF called = "resolveMatchPath" /\ ~ret.err
        THEN [val |-> FilepathJoin(ret.val, file), err |-> FALSE]
        ELSE IF flagPath # <<>> THEN
            LET e == expandHome(flagPath)
            IN  IF e.err THEN [val |-> <<>>, err |-> TRUE]
                ELSE [val |-> resolveExpanded(e.val, file), err |-> FALSE]
        ELSE LET d == expandHome(dir)
             IN  IF d.err THEN [val |-> <<>>, err |-> TRUE]
                 ELSE [val |-> FilepathJoin(d.val, file), err |-> FALSE]

\* func resolveMatchPath(flagPath string, cfg AppConfig) (string, error)
resolveMatchPath(flagPath, c) ==
    LET dir == effectiveDir(c)
        file == effectiveFile(c)
    IN  IF flagPath # <<>> THEN
            IF HasPrefix(flagPath, <<"~">>) THEN
                LET e == expandHome(flagPath)
                IN  IF e.err THEN [val |-> <<>>, err |-> TRUE]
                    ELSE [val |-> resolveExpanded(e.val, file), err |-> FALSE]
            ELSE [val |-> resolveExpanded(flagPath, file), err |-> FALSE]
        ELSE IF HasPrefix(dir, <<"~">>) THEN
            LET d == expandHome(dir)
            IN  IF d.err THEN [val |-> <<>>, err |-> TRUE]
                ELSE [val |-> FilepathJoin(d.val, file), err |-> FALSE]
        ELSE [val |-> FilepathJoin(dir, file), err |-> FALSE]

\* type AppConfig struct
AppConfig(dir, file, fileOpener, dirOpener, mode) ==
    [MatchDir |-> dir, MatchFile |-> file, FileOpener |-> fileOpener,
     DirOpener |-> dirOpener, MultilineMode |-> mode]

\* ensureFileWithHeader has not been called
NoEnsure == [stat |-> "", err |-> FALSE]

\* No run of main: a function is called on its own.
MainIdle ==
    /\ pc = "idle"
    /\ exitCode = 0
    /\ openFlag = FALSE
    /\ dirFlag = FALSE
    /\ filePath = <<>>
    /\ fileKind = "absent"
    /\ fileData = <<>>
    /\ parentDirs = FALSE
    /\ fileBefore = [kind |-> "absent", data |-> <<>>, dirs |-> FALSE]
    /\ prompts = 0
    /\ opened = <<>>
    /\ ensureRet = NoEnsure
    /\ triggersLine = <<>>
    /\ runs = 0
    /\ fileOrigin = fileBefore
    /\ fragments = <<>>

-----------------------------------------------------------------------------
(* The path resolver, called on its own: every flag path, configuration    *)
(* and home directory of the sets below.                                   *)

PathChars == {"~", "/", ".", "a"}
Paths == StringsUpTo(PathChars, MaxPathLen)

\* $HOME: unset, an ordinary directory, a directory whose name has a dot
\* (/home/john.doe), the root directory
Homes == {NoHome, <<"/", "h">>, <<"/", "h", ".", "d">>, <<"/">>}

MatchDirs == {<<>>, <<"~">>, <<"~", "/", "d">>, <<"/", "d">>, <<"~", "d">>}
MatchFiles == {<<>>, <<"f", ".", "y">>}

NoCall == [val |-> <<>>, err |-> FALSE]

InitResolve ==
    /\ home \in Homes
    /\ matchFlag \in Paths
    /\ cfg \in {AppConfig(d, f, <<>>, <<>>, <<>>) : d \in MatchDirs, f \in MatchFiles}
    /\ arg = <<>>
    /\ triggers = <<>>
    /\ replaceStr = <<>>
    /\ called = ""
    /\ ret = NoCall
    /\ calls = 0
    /\ stdin = <<>>
    /\ MainIdle

\* resolveMatchPath(matchFlag, cfg), called once or several times in a row
\* by one process: it reads its arguments and the home directory and
\* writes no variable of the program or of its environment
CallResolveMatchPath ==
    /\ called \in {"", "resolveMatchPath"}
    /\ calls < MaxCalls
    /\ called' = "resolveMatchPath"
    /\ ret' = resolveMatchPath(matchFlag, cfg)
    /\ calls' = calls + 1
    /\ UNCHANGED <<home, matchFlag, cfg, triggers, replaceStr, arg, stdin>>
    /\ UNCHANGED mainVars

\* expandHome on the strings resolveMatchPath may hand it
CallExpandHome ==
    /\ called = ""
    /\ \E p \in {matchFlag, effectiveDir(cfg)} :
           /\ arg' = p
           /\ ret' = expandHome(p)
    /\ called' = "expandHome"
    /\ calls' = calls + 1
    /\ UNCHANGED <<home, matchFlag, cfg, triggers, replaceStr, stdin>>
    /\ UNCHANGED mainVars

NextResolve == CallResolveMatchPath \/ CallExpandHome

SpecResolve == InitResolve /\ [][NextResolve]_vars

-----------------------------------------------------------------------------
(* The snippet formatter.                                                  *)

\* fmt.Sprintf("%q", s) on one character (strconv.Quote): the double quote
\* and the backslash get a backslash, control characters their escape
\* letter, every printable character stands for itself.
QuoteChar(c) ==
    CASE c = DQ  -> <<BS, DQ>>
      [] c = BS  -> <<BS, BS>>
      [] c = NL  -> <<BS, "n">>
      [] c = TAB -> <<BS, "t">>
      [] OTHER   -> <<c>>

RECURSIVE QuoteBody(_)
QuoteBody(s) == IF s = <<>> THEN <<>> ELSE QuoteChar(Head(s)) \o QuoteBody(Tail(s))

\* %q with only the double quote escaped: backslashes and control
\* characters written as they are
QuoteOnlyQuotes(s) ==
    LET RECURSIVE body(_)
        body(t) == IF t = <<>> THEN <<>>
                   ELSE (IF Head(t) = DQ THEN <<BS, DQ>> ELSE <<Head(t)>>) \o body(Tail(t))
    IN  <<DQ>> \o body(s) \o <<DQ>>

\* fmt.Sprintf("%q", s)
Quote(s) == <<DQ>> \o QuoteBody(s) \o <<DQ>>

\* the quoted triggers, separated by ", "
RECURSIVE quotedList(_)
quotedList(ts) ==
    IF ts = <<>> THEN <<>>
    ELSE IF Len(ts) = 1 THEN Quote(ts[1])
    ELSE Quote(ts[1]) \o <<",", SP>> \o quotedList(Tail(ts))

\* the trigger line always written as a list: "triggers: [...]" also for one
triggerLineAlwaysList(ts) ==
    <<"t","r","i","g","g","e","r","s",":",SP,"[">> \o quotedList(ts) \o <<"]", NL>>

\* buildYAMLSnippet, the trigger line (main.go:190-204)
triggerLine(ts) ==
    IF Len(ts) = 1
    THEN <<"t","r","i","g","g","e","r",":",SP>> \o Quote(ts[1]) \o <<NL>>
    ELSE <<"t","r","i","g","g","e","r","s",":",SP,"[">> \o quotedList(ts) \o <<"]", NL>>

\* the lines of a literal block, each with six spaces before it
RECURSIVE blockLines(_)
blockLines(lines) ==
    IF lines = <<>> THEN <<>>
    ELSE <<SP, SP, SP, SP, SP, SP>> \o Head(lines) \o <<NL>> \o blockLines(Tail(lines))

\* the replace part with the lines of a block trimmed of leading spaces and
\* empty lines left out
replaceLinesTrimmed(replace) ==
    LET RECURSIVE trim(_)
        trim(l) == IF l # <<>> /\ Head(l) = SP THEN trim(Tail(l)) ELSE l
        RECURSIVE each(_)
        each(ls) == IF ls = <<>> THEN <<>>
                    ELSE (IF trim(Head(ls)) = <<>> THEN <<>> ELSE <<trim(Head(ls))>>)
                         \o each(Tail(ls))
    IN  IF Contains(replace, NL)
        THEN <<SP,SP,SP,SP,"r","e","p","l","a","c","e",":",SP,"|",NL>>
             \o blockLines(each(Split(replace, NL)))
        ELSE <<SP,SP,SP,SP,"r","e","p","l","a","c","e",":",SP>> \o Quote(replace) \o <<NL>>

\* the replace part always as a literal block
replaceLinesAlwaysBlock(replace) ==
    <<SP,SP,SP,SP,"r","e","p","l","a","c","e",":",SP,"|",NL>>
    \o blockLines(Split(replace, NL))

\* buildYAMLSnippet, the replace part (main.go:206-216)
replaceLines(replace) ==
    IF Contains(replace, NL)
    THEN <<SP,SP,SP,SP,"r","e","p","l","a","c","e",":",SP,"|",NL>>
         \o blockLines(Split(replace, NL))
    ELSE <<SP,SP,SP,SP,"r","e","p","l","a","c","e",":",SP>> \o Quote(replace) \o <<NL>>

\* func buildYAMLSnippet(triggers []string, replace string) string
buildYAMLSnippet(ts, replace) ==
    <<NL, SP, SP, "-", SP>> \o triggerLine(ts) \o replaceLines(replace)

-----------------------------------------------------------------------------
(* The snippet formatter, called on its own.                               *)

ReplaceChars == {"n", DQ, BS, NL, SP}
Replacements == StringsUpTo(ReplaceChars, MaxReplaceLen)

\* trigger strings: plain, with a quote and a backslash, with a backslash
\* before a letter, with control characters
TriggerStrs == {<<":", "n">>, <<DQ, BS>>, <<BS, "n">>, <<NL, TAB>>}
TriggerLists == UNION {[1..k -> TriggerStrs] : k \in 1..MaxTriggers}

InitSnippet ==
    /\ home = NoHome
    /\ matchFlag = <<>>
    /\ cfg = AppConfig(<<>>, <<>>, <<>>, <<>>, <<>>)
    /\ arg = <<>>
    /\ triggers \in TriggerLists
    /\ replaceStr \in Replacements
    /\ called = ""
    /\ ret = NoCall
    /\ calls = 0
    /\ stdin = <<>>
    /\ MainIdle

CallBuildYAMLSnippet ==
    /\ called = ""
    /\ called' = "buildYAMLSnippet"
    /\ ret' = [val |-> buildYAMLSnippet(triggers, replaceStr), err |-> FALSE]
    /\ calls' = calls + 1
    /\ UNCHANGED <<home, matchFlag, cfg, triggers, replaceStr, arg, stdin>>
    /\ UNCHANGED mainVars

NextSnippet == CallBuildYAMLSnippet

SpecSnippet == InitSnippet /\ [][NextSnippet]_vars

-----------------------------------------------------------------------------
(* The rest of main.go: the file helper, the prompts, the openers.         *)

\* the header ensureFileWithHeader writes (main.go:95-102)
header ==
    <<
      "#",SP,"e","s","p","a","n","s","o",SP,"m","a","t","c","h",SP,"f","i",
      "l","e",SP,"(","m","a","n","a","g","e","d",SP,"b","y",SP,"c","l","i",
      "e","s","p",")",NL,
      NL,
      "#",SP,"T","h","i","s",SP,"f","i","l","e",SP,"i","s",SP,"g","e","n",
      "e","r","a","t","e","d",SP,"a","n","d",SP,"m","a","i","n","t","a","i",
      "n","e","d",SP,"b","y",SP,"c","l","i","e","s","p",".",SP,"F","o","r",
      SP,"m","o","r","e",SP,"i","n","f","o","r","m","a","t","i","o","n",",",
      SP,"s","e","e",SP,"h","t","t","p","s",":","/","/","g","i","t","h","u",
      "b",".","c","o","m","/","k","v","n","l","o","u","g","h","e","a","d",
      "/","c","l","i","e","s","p",".",NL,
      NL,
      "#",SP,"F","o","r",SP,"i","n","f","o","r","m","a","t","i","o","n",SP,
      "a","b","o","u","t",SP,"e","s","p","a","n","s","o",",",SP,"v","i","s",
      "i","t",SP,"t","h","e",SP,"o","f","f","i","c","i","a","l",SP,"d","o",
      "c","s",SP,"a","t",":",SP,"h","t","t","p","s",":","/","/","e","s","p",
      "a","n","s","o",".","o","r","g","/","d","o","c","s","/",NL,
      NL,
      "m","a","t","c","h","e","s",":",NL
    >>

\* unicode.IsSpace, for the characters of the model
IsSpace(c) == c \in {SP, TAB, NL, "\r"}

\* strings.TrimSpace
RECURSIVE TrimLeft(_)
TrimLeft(s) == IF s # <<>> /\ IsSpace(Head(s)) THEN TrimLeft(Tail(s)) ELSE s

RECURSIVE TrimRight(_)
TrimRight(s) ==
    IF s # <<>> /\ IsSpace(s[Len(s)]) THEN TrimRight(SubSeq(s, 1, Len(s) - 1)) ELSE s

TrimSpace(s) == TrimRight(TrimLeft(s))

\* strings.Fields: the maximal runs of non-space characters
RECURSIVE FieldsFrom(_, _, _)
FieldsFrom(s, cur, acc) ==
    IF s = <<>> THEN (IF cur = <<>> THEN acc ELSE Append(acc, cur))
    ELSE IF IsSpace(Head(s))
         THEN FieldsFrom(Tail(s), <<>>, IF cur = <<>> THEN acc ELSE Append(acc, cur))
    ELSE FieldsFrom(Tail(s), Append(cur, Head(s)), acc)

Fields(s) == FieldsFrom(s, <<>>, <<>>)

\* filepath.Dir: all but the last element of the path, cleaned
RECURSIVE LastSeparator(_, _)
LastSeparator(path, i) ==
    IF i < 1 THEN 0
    ELSE IF IsPathSeparator(path[i]) THEN i
    ELSE LastSeparator(path, i - 1)

Dir(path) == Clean(SubSeq(path, 1, LastSeparator(path, Len(path))))

\* func prompt(s string) (string, error), on the line read from stdin
promptLine(line) == TrimSpace(line)

\* main.go:417-423: the trigger tokens of the line
RECURSIVE NonEmptyTrimmed(_)
NonEmptyTrimmed(parts) ==
    IF parts = <<>> THEN <<>>
    ELSE (IF TrimSpace(Head(parts)) # <<>> THEN <<TrimSpace(Head(parts))>> ELSE <<>>)
         \o NonEmptyTrimmed(Tail(parts))

triggersOf(line) == NonEmptyTrimmed(Fields(line))

\* the EOF reader comparing the trimmed line: strings.TrimSpace(line) == "EOF"
RECURSIVE linesUntilEOFTrimmed(_, _)
linesUntilEOFTrimmed(input, lines) ==
    IF input = <<>> THEN lines
    ELSE IF TrimSpace(Head(input)) = <<"E", "O", "F">> THEN lines
    ELSE linesUntilEOFTrimmed(Tail(input), Append(lines, Head(input)))

\* func promptMultilineEOF: the lines before the first line "EOF"
RECURSIVE linesUntilEOF(_, _)
linesUntilEOF(input, lines) ==
    IF input = <<>> THEN lines
    ELSE IF Head(input) = <<"E", "O", "F">> THEN lines
    ELSE linesUntilEOF(Tail(input), Append(lines, Head(input)))

promptMultilineEOF(input) == StringsJoin(linesUntilEOF(input, <<>>), <<NL>>)

\* the messaging reader without "&& len(lines) > 0": the first empty line
\* submits, also as the very first line
RECURSIVE linesUntilEmptyAny(_, _)
linesUntilEmptyAny(input, lines) ==
    IF input = <<>> THEN lines
    ELSE IF Head(input) = <<>> THEN lines
    ELSE linesUntilEmptyAny(Tail(input), Append(lines, Head(input)))

\* func promptMultilineMessaging: the lines before the first empty line
\* that comes after at least one line
RECURSIVE linesUntilEmpty(_, _)
linesUntilEmpty(input, lines) ==
    IF input = <<>> THEN lines
    ELSE IF Head(input) = <<>> /\ Len(lines) > 0 THEN lines
    ELSE linesUntilEmpty(Tail(input), Append(lines, Head(input)))

promptMultilineMessaging(input) == StringsJoin(linesUntilEmpty(input, <<>>), <<NL>>)

multilineModeMessaging == <<"m","e","s","s","a","g","i","n","g">>
multilineModeEOF == <<"e","o","f">>
defaultMultilineMode == multilineModeMessaging

\* promptMultiline testing for the EOF mode: "eof" selects the EOF reader,
\* every other value the messaging reader
promptMultilineByEOF(input, mode) ==
    IF mode = multilineModeEOF THEN promptMultilineEOF(input)
    ELSE promptMultilineMessaging(input)

\* func promptMultiline(s string, mode string) (string, error)
promptMultiline(input, mode) ==
    IF mode = multilineModeMessaging THEN promptMultilineMessaging(input)
    ELSE promptMultilineEOF(input)

\* checkOpenConflict with || for &&: an error for either flag
checkOpenConflictEither(openFile, openDir) == openFile \/ openDir

\* func checkOpenConflict(openFile, openDir bool) error: TRUE for an error
checkOpenConflict(openFile, openDir) == openFile /\ openDir

\* the file opener without strings.TrimSpace: a configured value or an
\* $EDITOR of blanks is taken as it is
pickFileOpenerNoTrim(c, editor) ==
    IF c.FileOpener # <<>> THEN c.FileOpener
    ELSE IF editor # <<>> THEN editor
    ELSE <<"v", "i", "m">>

\* func pickFileOpener(cfg AppConfig) string, under $EDITOR = editor
pickFileOpener(c, editor) ==
    IF TrimSpace(c.FileOpener) # <<>> THEN TrimSpace(c.FileOpener)
    ELSE IF TrimSpace(editor) # <<>> THEN TrimSpace(editor)
    ELSE <<"v", "i", "m">>

\* func pickDirOpener(cfg AppConfig) string, under runtime.GOOS = goos
pickDirOpener(c, goos) ==
    IF TrimSpace(c.DirOpener) # <<>> THEN TrimSpace(c.DirOpener)
    ELSE IF goos = "linux" THEN <<"x","d","g","-","o","p","e","n">>
    ELSE IF goos = "windows" THEN <<"e","x","p","l","o","r","e","r">>
    ELSE <<"o", "p", "e", "n">>

\* the errors of runOpen; "" is nil
RunOpenErrs ==
    {"", "invalid opener command", "could not find opener in PATH",
     "command failed"}

\* func runOpen(opener, target string) error, returning err: the command
\* line handed to exec is kept in opened
runOpen(opener, target, err) ==
    LET parts == Fields(opener)
    IN  \/ \* len(parts) == 0
           /\ Len(parts) = 0
           /\ err = "invalid opener command"
           /\ UNCHANGED opened
        \/ \* exec.LookPath does not find parts[0]: nothing is executed
           /\ Len(parts) > 0
           /\ err = "could not find opener in PATH"
           /\ UNCHANGED opened
        \/ \* cmd.Run returns an error
           /\ Len(parts) > 0
           /\ err = "command failed"
           /\ opened' = Append(parts, target)
        \/ \* the command runs and succeeds
           /\ Len(parts) > 0
           /\ err = ""
           /\ opened' = Append(parts, target)

-----------------------------------------------------------------------------
(* One run of main.  Each action is one step of main with the helper it    *)
(* calls; what the environment decides (the configuration loaded, the      *)
(* lines typed, a system call failing) is chosen in the step that reads    *)
(* it.  The terminal hands the program one line per read.                  *)

\* -m arguments of the runs
MainFlags ==
    {<<>>, <<"~">>, <<"~", "/", "a">>, <<"~", "a">>, <<"/", "a", "/">>,
     <<"/", "a", ".", "y">>}

MainHomes == {NoHome, <<"/", "h">>}

\* configurations cfgpkg.Load may return
Configs ==
    {AppConfig(d, f, <<>>, <<>>, m) :
        d \in {<<>>, <<"~", "/", "d">>, <<"/", "d">>},
        f \in {<<>>, <<"f", ".", "y">>},
        m \in {<<>>, multilineModeMessaging, multilineModeEOF}}
    \cup {AppConfig(defaultEspansoMatchDir, defaultEspansoMatchFile,
                    <<"c","o","d","e",SP,"-","w">>, <<SP>>, <<"x">>)}

\* what is at the target path before the run
FilesBefore ==
    {[kind |-> "absent", data |-> <<>>, dirs |-> FALSE],
     [kind |-> "absent", data |-> <<>>, dirs |-> TRUE],
     [kind |-> "file", data |-> header, dirs |-> TRUE],
     [kind |-> "file", data |-> <<"x", NL>>, dirs |-> TRUE],
     [kind |-> "dir", data |-> <<>>, dirs |-> TRUE]}

\* lines typed at the trigger prompt
TriggerInputs ==
    {<<>>, <<SP>>, <<":", "a">>, <<SP, ":", "a", SP, SP, ":", "b", TAB, ":", "a">>}

\* lines typed at the replacement prompt, up to end of input
ReplaceInputLines == {<<>>, <<"n">>, <<"E", "O", "F">>}
ReplaceInputs == UNION {[1..k -> ReplaceInputLines] : k \in 0..MaxInputLines}

\* $EDITOR and runtime.GOOS of the Unix builds
Editors == {<<>>, <<"n","a","n","o">>}
GOOSes == {"linux", "darwin"}

\* what a failed write may leave of the text it was writing: nothing, or its
\* first bytes
Prefixes(text) ==
    {SubSeq(text, 1, n) :
        n \in 0..(IF Len(text) - 1 < MaxShortWrite THEN Len(text) - 1
                  ELSE MaxShortWrite)}

\* the start of main in a process whose home directory is one of homes and
\* whose -m argument is one of flags
InitWith(homes, flags) ==
    /\ home \in homes
    /\ matchFlag \in flags
    /\ openFlag \in BOOLEAN
    /\ dirFlag \in BOOLEAN
    /\ fileBefore \in FilesBefore
    /\ fileKind = fileBefore.kind
    /\ fileData = fileBefore.data
    /\ parentDirs = fileBefore.dirs
    /\ cfg = AppConfig(<<>>, <<>>, <<>>, <<>>, <<>>)
    /\ triggers = <<>>
    /\ replaceStr = <<>>
    /\ arg = <<>>
    /\ called = ""
    /\ ret = NoCall
    /\ calls = 0
    /\ stdin = <<>>
    /\ pc = "loadConfig"
    /\ exitCode = 0
    /\ filePath = <<>>
    /\ prompts = 0
    /\ opened = <<>>
    /\ ensureRet = NoEnsure
    /\ triggersLine = <<>>
    /\ runs = 1
    /\ fileOrigin = fileBefore
    /\ fragments = <<>>

Init == InitWith(MainHomes, MainFlags)

\* os.Exit(code)
Exit(code) ==
    /\ pc' = "exited"
    /\ exitCode' = code

\* The runs of the model are runs on one target path: a later run is given
\* a configuration under which it resolves the path the earlier one resolved.
SameTarget(c) ==
    \/ filePath = <<>>
    \/ resolveMatchPath(matchFlag, c) = [val |-> filePath, err |-> FALSE]

\* main.go:365-376: cfgpkg.Load returns a configuration or an error
LoadConfig ==
    /\ pc = "loadConfig"
    /\ \/ /\ Exit(1)
          /\ UNCHANGED cfg
       \/ /\ cfg' \in Configs
          /\ SameTarget(cfg')
          /\ pc' = "resolve"
          /\ UNCHANGED exitCode
    /\ UNCHANGED <<home, matchFlag, triggers, replaceStr, arg, called, ret,
                   calls, stdin>>
    /\ UNCHANGED <<openFlag, dirFlag, filePath, fileKind, fileData, parentDirs,
                   fileBefore, prompts, opened, ensureRet, triggersLine, runs,
                   fileOrigin, fragments>>

\* ResolvePath without the os.Exit(1): the error is printed and main goes on
ResolvePathNoExit ==
    /\ pc = "resolve"
    /\ called' = "resolveMatchPath"
    /\ ret' = resolveMatchPath(matchFlag, cfg)
    /\ filePath' = ret'.val
    /\ pc' = "ensure"
    /\ UNCHANGED <<home, matchFlag, cfg, triggers, replaceStr, arg, calls, stdin>>
    /\ UNCHANGED <<exitCode, openFlag, dirFlag, fileKind, fileData, parentDirs,
                   fileBefore, prompts, opened, ensureRet, triggersLine, runs,
                   fileOrigin, fragments>>

\* main.go:378-383: filePath, err := resolveMatchPath(matchFlag, cfg)
ResolvePath ==
    /\ pc = "resolve"
    /\ called' = "resolveMatchPath"
    /\ ret' = resolveMatchPath(matchFlag, cfg)
    /\ IF ret'.err
       THEN /\ Exit(1)
            /\ UNCHANGED filePath
       ELSE /\ filePath' = ret'.val
            /\ pc' = "ensure"
            /\ UNCHANGED exitCode
    /\ UNCHANGED <<home, matchFlag, cfg, triggers, replaceStr, arg, calls, stdin>>
    /\ UNCHANGED <<openFlag, dirFlag, fileKind, fileData, parentDirs,
                   fileBefore, prompts, opened, ensureRet, triggersLine, runs,
                   fileOrigin, fragments>>

\* what os.Stat may answer and whether ensureFileWithHeader returns an error
EnsureRets == [stat : {"ok", "notExist", "error"}, err : BOOLEAN]

\* ensureFileWithHeader that creates the directories and the file and
\* returns without writing the header
ensureFileWithHeaderNoWrite(r) ==
    \/ /\ fileKind # "absent"
       /\ r = [stat |-> "ok", err |-> FALSE]
       /\ UNCHANGED <<fileKind, fileData, parentDirs>>
    \/ /\ fileKind = "absent"
       /\ r = [stat |-> "notExist", err |-> FALSE]
       /\ parentDirs' = TRUE
       /\ fileKind' = "file"
       /\ fileData' = <<>>

\* ensureFileWithHeader that opens the path with os.Create whatever os.Stat
\* answered: a file that is there is truncated and gets the header
ensureFileWithHeaderTruncating(r) ==
    \/ /\ fileKind = "dir"
       /\ r = [stat |-> "ok", err |-> TRUE]
       /\ UNCHANGED <<fileKind, fileData, parentDirs>>
    \/ /\ fileKind # "dir"
       /\ r = [stat |-> (IF fileKind = "file" THEN "ok" ELSE "notExist"),
               err |-> FALSE]
       /\ parentDirs' = TRUE
       /\ fileKind' = "file"
       /\ fileData' = header

\* func ensureFileWithHeader(p string) error (main.go:84-108), for p = the
\* target path.  r is what os.Stat answered and whether the helper returns
\* an error.  os.Stat answers that nothing is there only if nothing is; it
\* may also fail for another reason, whatever is there.
ensureFileWithHeader(r) ==
    \/ \* Stat succeeds: something is there, nothing is created, nil
       /\ fileKind # "absent"
       /\ r = [stat |-> "ok", err |-> FALSE]
       /\ UNCHANGED <<fileKind, fileData, parentDirs>>
    \/ \* Stat fails with an error that is not ErrNotExist: nothing is
       \* created, nil
       /\ r = [stat |-> "error", err |-> FALSE]
       /\ UNCHANGED <<fileKind, fileData, parentDirs>>
    \/ \* ErrNotExist, os.MkdirAll fails
       /\ fileKind = "absent"
       /\ ~parentDirs
       /\ r = [stat |-> "notExist", err |-> TRUE]
       /\ UNCHANGED <<fileKind, fileData, parentDirs>>
    \/ \* ErrNotExist, os.Create fails
       /\ fileKind = "absent"
       /\ r = [stat |-> "notExist", err |-> TRUE]
       /\ parentDirs' = TRUE
       /\ UNCHANGED <<fileKind, fileData>>
    \/ \* ErrNotExist, the file is created, f.WriteString fails
       /\ fileKind = "absent"
       /\ r = [stat |-> "notExist", err |-> TRUE]
       /\ parentDirs' = TRUE
       /\ fileKind' = "file"
       /\ fileData' \in Prefixes(header)
    \/ \* ErrNotExist, the file is created with the header
       /\ fileKind = "absent"
       /\ r = [stat |-> "notExist", err |-> FALSE]
       /\ parentDirs' = TRUE
       /\ fileKind' = "file"
       /\ fileData' = header

\* main.go:385-388: if err := ensureFileWithHeader(filePath); err != nil
EnsureFile ==
    /\ pc = "ensure"
    /\ \E r \in EnsureRets :
          /\ ensureFileWithHeader(r)
          /\ ensureRet' = r
          /\ IF r.err THEN Exit(1)
             ELSE /\ pc' = "conflict"
                  /\ UNCHANGED exitCode
    /\ UNCHANGED callVars
    /\ UNCHANGED <<openFlag, dirFlag, filePath, fileBefore, prompts, opened,
                   triggersLine, runs, fileOrigin, fragments>>

\* main.go:390-395: checkOpenConflict, then open mode or prompting mode
CheckConflict ==
    /\ pc = "conflict"
    /\ IF checkOpenConflict(openFlag, dirFlag) THEN Exit(2)
       ELSE /\ pc' = IF openFlag \/ dirFlag THEN "open" ELSE "promptTriggers"
            /\ UNCHANGED exitCode
    /\ UNCHANGED callVars
    /\ UNCHANGED <<openFlag, dirFlag, filePath, fileKind, fileData, parentDirs,
                   fileBefore, prompts, opened, ensureRet, triggersLine, runs,
                   fileOrigin, fragments>>

\* open mode with the two openers exchanged: the directory opener for
\* --open, the file opener for --openDir
OpenTargetSwapped ==
    /\ pc = "open"
    /\ \E editor \in Editors, goos \in GOOSes :
          LET target == IF dirFlag THEN Dir(filePath) ELSE filePath
              opener == IF dirFlag THEN pickFileOpener(cfg, editor)
                        ELSE pickDirOpener(cfg, goos)
              parts == Fields(opener)
          IN  \/ /\ Exit(1)
                 /\ opened' \in {<<>>, Append(parts, target)}
              \/ /\ Exit(0)
                 /\ opened' = Append(parts, target)
    /\ UNCHANGED callVars
    /\ UNCHANGED <<openFlag, dirFlag, filePath, fileKind, fileData, parentDirs,
                   fileBefore, prompts, ensureRet, triggersLine, runs,
                   fileOrigin, fragments>>

\* main.go:395-410 with func runOpen (main.go:333-347)
OpenTarget ==
    /\ pc = "open"
    /\ \E editor \in Editors, goos \in GOOSes :
          LET target == IF dirFlag THEN Dir(filePath) ELSE filePath
              opener == IF dirFlag THEN pickDirOpener(cfg, goos)
                        ELSE pickFileOpener(cfg, editor)
          IN  \E err \in RunOpenErrs :
                 /\ runOpen(opener, target, err)
                 /\ IF err # "" THEN Exit(1) ELSE Exit(0)
    /\ UNCHANGED callVars
    /\ UNCHANGED <<openFlag, dirFlag, filePath, fileKind, fileData, parentDirs,
                   fileBefore, prompts, ensureRet, triggersLine, runs,
                   fileOrigin, fragments>>

\* the trigger prompt without the test of len(triggers) == 0: main goes on
\* to the replacement prompt whatever the line holds
PromptTriggersNoExit ==
    /\ pc = "promptTriggers"
    /\ prompts' = prompts + 1
    /\ \E line \in TriggerInputs :
          /\ triggersLine' = promptLine(line)
          /\ triggers' = triggersOf(triggersLine')
          /\ pc' = "promptReplace"
          /\ UNCHANGED exitCode
    /\ UNCHANGED <<home, matchFlag, cfg, replaceStr, arg, called, ret, calls,
                   stdin>>
    /\ UNCHANGED <<openFlag, dirFlag, filePath, fileKind, fileData, parentDirs,
                   fileBefore, opened, ensureRet, runs, fileOrigin, fragments>>

\* main.go:412-427: the trigger prompt and the trigger list
PromptTriggers ==
    /\ pc = "promptTriggers"
    /\ prompts' = prompts + 1
    /\ \/ \* reading the line fails (end of input)
          /\ Exit(1)
          /\ UNCHANGED <<triggers, triggersLine>>
       \/ \E line \in TriggerInputs :
             /\ triggersLine' = promptLine(line)
             /\ triggers' = triggersOf(triggersLine')
             /\ IF Len(triggers') = 0 THEN Exit(1)
                ELSE /\ pc' = "promptReplace"
                     /\ UNCHANGED exitCode
    /\ UNCHANGED <<home, matchFlag, cfg, replaceStr, arg, called, ret, calls,
                   stdin>>
    /\ UNCHANGED <<openFlag, dirFlag, filePath, fileKind, fileData, parentDirs,
                   fileBefore, opened, ensureRet, runs, fileOrigin, fragments>>

\* main.go:429-439: the multiline mode and the replacement prompt
PromptReplace ==
    /\ pc = "promptReplace"
    /\ prompts' = prompts + 1
    /\ LET mode == IF cfg.MultilineMode = <<>> THEN defaultMultilineMode
                   ELSE cfg.MultilineMode
       IN  \/ \* scanner.Err() is not nil
              /\ Exit(1)
              /\ UNCHANGED <<replaceStr, stdin>>
           \/ \E input \in ReplaceInputs :
                 /\ stdin' = input
                 /\ replaceStr' = promptMultiline(input, mode)
                 /\ pc' = "append"
                 /\ UNCHANGED exitCode
    /\ UNCHANGED <<home, matchFlag, cfg, triggers, arg, called, ret, calls>>
    /\ UNCHANGED <<openFlag, dirFlag, filePath, fileKind, fileData, parentDirs,
                   fileBefore, opened, ensureRet, triggersLine, runs,
                   fileOrigin, fragments>>

\* main.go:441-453: the entry is built and appended
AppendEntry ==
    /\ pc = "append"
    /\ LET entry == buildYAMLSnippet(triggers, replaceStr)
       IN  \/ \* os.OpenFile fails: O_APPEND|O_WRONLY opens only a file that
              \* is there, and may fail on one that is
              /\ Exit(1)
              /\ UNCHANGED <<fileData, fragments>>
           \/ \* f.WriteString fails
              /\ fileKind = "file"
              /\ fileData' \in {fileData \o part : part \in Prefixes(entry)}
              /\ Exit(1)
              /\ UNCHANGED fragments
           \/ \* the entry is appended
              /\ fileKind = "file"
              /\ fileData' = fileData \o entry
              /\ fragments' = Append(fragments, entry)
              /\ Exit(0)
    /\ UNCHANGED callVars
    /\ UNCHANGED <<openFlag, dirFlag, filePath, fileKind, parentDirs,
                   fileBefore, prompts, opened, ensureRet, triggersLine, runs,
                   fileOrigin>>

Next ==
    \/ LoadConfig
    \/ ResolvePath
    \/ EnsureFile
    \/ CheckConflict
    \/ OpenTarget
    \/ PromptTriggers
    \/ PromptReplace
    \/ AppendEntry

Spec == Init /\ [][Next]_vars

-----------------------------------------------------------------------------
(* Runs of main one after the other on one target path: when a run has     *)
(* ended the program is started again, with flags of its own, and finds    *)
(* the files the earlier runs left.                                        *)

\* -m arguments of the runs: none (the configured path) or a file path
RunFlags == {<<>>, <<"/", "a", ".", "y">>}

InitRuns == InitWith({<<"/", "h">>}, RunFlags)

\* the program is started again: a new process, the same file system
Restart ==
    /\ pc = "exited"
    /\ runs < MaxRuns
    /\ runs' = runs + 1
    /\ pc' = "loadConfig"
    /\ exitCode' = 0
    /\ openFlag' \in BOOLEAN
    /\ dirFlag' \in BOOLEAN
    /\ cfg' = AppConfig(<<>>, <<>>, <<>>, <<>>, <<>>)
    /\ triggers' = <<>>
    /\ replaceStr' = <<>>
    /\ triggersLine' = <<>>
    /\ called' = ""
    /\ ret' = NoCall
    /\ prompts' = 0
    /\ opened' = <<>>
    /\ ensureRet' = NoEnsure
    /\ fileBefore' = [kind |-> fileKind, data |-> fileData, dirs |-> parentDirs]
    /\ stdin' = <<>>
    /\ UNCHANGED <<home, matchFlag, arg, calls, filePath, fileKind,
                   fileData, parentDirs, fileOrigin, fragments>>

NextRuns == Next \/ Restart

SpecRuns == InitRuns /\ [][NextRuns]_vars

-----------------------------------------------------------------------------
(* The file helper, called on its own, once or several times in a row, on  *)
(* a path where nothing, a directory or a file of any content is.          *)

ContentChars == {"m", ":", NL}

\* what is at the path before the first call
EnsureFiles ==
    {[kind |-> "absent", data |-> <<>>, dirs |-> FALSE],
     [kind |-> "absent", data |-> <<>>, dirs |-> TRUE],
     [kind |-> "dir", data |-> <<>>, dirs |-> TRUE]}
    \cup {[kind |-> "file", data |-> d, dirs |-> TRUE] :
              d \in StringsUpTo(ContentChars, MaxContentLen) \cup {header}}

\* paths the helper is called on: a file in the root directory, a nested one
EnsurePaths == {<<"/", "f">>, <<"/", "d", "/", "e", "/", "f", ".", "y">>}

InitEnsure ==
    /\ home = NoHome
    /\ matchFlag = <<>>
    /\ cfg = AppConfig(<<>>, <<>>, <<>>, <<>>, <<>>)
    /\ triggers = <<>>
    /\ replaceStr = <<>>
    /\ arg = <<>>
    /\ called = ""
    /\ ret = NoCall
    /\ calls = 0
    /\ stdin = <<>>
    /\ pc = "idle"
    /\ exitCode = 0
    /\ openFlag = FALSE
    /\ dirFlag = FALSE
    /\ filePath \in EnsurePaths
    /\ fileOrigin \in EnsureFiles
    /\ fileBefore = fileOrigin
    /\ fileKind = fileOrigin.kind
    /\ fileData = fileOrigin.data
    /\ parentDirs = fileOrigin.dirs
    /\ prompts = 0
    /\ opened = <<>>
    /\ ensureRet = NoEnsure
    /\ triggersLine = <<>>
    /\ runs = 0
    /\ fragments = <<>>

\* ensureFileWithHeader(filePath)
CallEnsureFileWithHeader ==
    /\ pc = "idle"
    /\ called \in {"", "ensureFileWithHeader"}
    /\ calls < MaxCalls
    /\ \E r \in EnsureRets :
          /\ ensureFileWithHeader(r)
          /\ ensureRet' = r
          /\ ret' = [val |-> <<>>, err |-> r.err]
    /\ called' = "ensureFileWithHeader"
    /\ calls' = calls + 1
    /\ fileBefore' = [kind |-> fileKind, data |-> fileData, dirs |-> parentDirs]
    /\ UNCHANGED <<home, matchFlag, cfg, triggers, replaceStr, arg, stdin>>
    /\ UNCHANGED <<pc, exitCode, openFlag, dirFlag, filePath, prompts, opened,
                   triggersLine, runs, fileOrigin, fragments>>

NextEnsure == CallEnsureFileWithHeader

SpecEnsure == InitEnsure /\ [][NextEnsure]_vars

-----------------------------------------------------------------------------
(* The multiline readers, called on their own on the lines standard input  *)
(* holds: what bufio.Scanner hands over, line by line, up to end of input. *)

\* an empty line, a line of text, the line "EOF", "EOF" after and before a
\* space
StdinLines ==
    {<<>>, <<"n">>, <<"E", "O", "F">>, <<SP, "E", "O", "F">>, <<"E", "O", "F", SP>>}
StdinInputs == UNION {[1..k -> StdinLines] : k \in 0..MaxStdinLines}

InitReader ==
    /\ home = NoHome
    /\ matchFlag = <<>>
    /\ cfg = AppConfig(<<>>, <<>>, <<>>, <<>>, <<>>)
    /\ triggers = <<>>
    /\ replaceStr = <<>>
    /\ arg = <<>>
    /\ called = ""
    /\ ret = NoCall
    /\ calls = 0
    /\ stdin \in StdinInputs
    /\ MainIdle

\* promptMultilineMessaging(s) on the lines of stdin; scanner.Err() may
\* report a read error, and the reader then returns "" and the error
CallPromptMultilineMessaging ==
    /\ called = ""
    /\ called' = "promptMultilineMessaging"
    /\ \/ ret' = [val |-> promptMultilineMessaging(stdin), err |-> FALSE]
       \/ ret' = [val |-> <<>>, err |-> TRUE]
    /\ calls' = calls + 1
    /\ UNCHANGED <<home, matchFlag, cfg, triggers, replaceStr, arg, stdin>>
    /\ UNCHANGED mainVars

\* promptMultilineEOF(s) on the lines of stdin
CallPromptMultilineEOF ==
    /\ called = ""
    /\ called' = "promptMultilineEOF"
    /\ \/ ret' = [val |-> promptMultilineEOF(stdin), err |-> FALSE]
       \/ ret' = [val |-> <<>>, err |-> TRUE]
    /\ calls' = calls + 1
    /\ UNCHANGED <<home, matchFlag, cfg, triggers, replaceStr, arg, stdin>>
    /\ UNCHANGED mainVars

NextReader == CallPromptMultilineMessaging \/ CallPromptMultilineEOF

SpecReader == InitReader /\ [][NextReader]_vars

-----------------------------------------------------------------------------
(* The opener functions called as main calls them in open mode             *)
(* (main.go:395-404): the opener is picked for the flag given, then        *)
(* runOpen gets it with the file or its directory.  $EDITOR, GOOS and the  *)
(* opener handed to runOpen are kept in arg.                               *)

MaxOpenerLen == 3

\* configured openers and values of $EDITOR: blank, padded, several words
OpenerStrings == StringsUpTo({"c", SP}, MaxOpenerLen)

OpenerGOOSes == {"linux", "windows", "darwin", "freebsd"}

OpenerTargets == {<<"/", "a">>, <<"/", "d", "/", "a">>}

InitOpeners ==
    /\ home = NoHome
    /\ matchFlag = <<>>
    /\ \E fo \in OpenerStrings, do \in OpenerStrings :
          cfg = AppConfig(<<>>, <<>>, fo, do, <<>>)
    /\ triggers = <<>>
    /\ replaceStr = <<>>
    /\ arg = <<>>
    /\ called = ""
    /\ ret = NoCall
    /\ calls = 0
    /\ stdin = <<>>
    /\ pc = "idle"
    /\ exitCode = 0
    /\ \E d \in BOOLEAN : openFlag = ~d /\ dirFlag = d
    /\ filePath \in OpenerTargets
    /\ fileKind = "file"
    /\ fileData = <<>>
    /\ parentDirs = TRUE
    /\ fileBefore = [kind |-> "file", data |-> <<>>]
    /\ prompts = <<>>
    /\ opened = <<>>
    /\ ensureRet = NoEnsure
    /\ triggersLine = <<>>
    /\ runs = 0
    /\ fileOrigin = fileBefore
    /\ fragments = <<>>

\* main.go:400: opener := pickFileOpener(cfg)
CallPickFileOpener ==
    /\ called = ""
    /\ ~dirFlag
    /\ called' = "pickFileOpener"
    /\ \E editor \in OpenerStrings :
          /\ arg' = editor
          /\ ret' = [val |-> pickFileOpener(cfg, editor), err |-> FALSE]
    /\ calls' = calls + 1
    /\ UNCHANGED <<home, matchFlag, cfg, triggers, replaceStr, stdin>>
    /\ UNCHANGED mainVars

\* main.go:401-403: opener = pickDirOpener(cfg)
CallPickDirOpener ==
    /\ called = ""
    /\ dirFlag
    /\ called' = "pickDirOpener"
    /\ \E goos \in OpenerGOOSes :
          /\ arg' = <<goos>>
          /\ ret' = [val |-> pickDirOpener(cfg, goos), err |-> FALSE]
    /\ calls' = calls + 1
    /\ UNCHANGED <<home, matchFlag, cfg, triggers, replaceStr, stdin>>
    /\ UNCHANGED mainVars

\* main.go:396-399, 404: runOpen(opener, target)
CallRunOpen ==
    /\ called \in {"pickFileOpener", "pickDirOpener"}
    /\ called' = "runOpen"
    /\ arg' = ret.val
    /\ \E err \in RunOpenErrs :
          /\ runOpen(ret.val, IF dirFlag THEN Dir(filePath) ELSE filePath, err)
          /\ ret' = [val |-> IF err = "" THEN <<>> ELSE <<err>>,
                     err |-> err # ""]
    /\ calls' = calls + 1
    /\ UNCHANGED <<home, matchFlag, cfg, triggers, replaceStr, stdin>>
    /\ UNCHANGED <<pc, exitCode, openFlag, dirFlag, filePath, fileKind,
                   fileData, parentDirs, fileBefore, prompts, ensureRet,
                   triggersLine, runs, fileOrigin, fragments>>

NextOpeners == CallPickFileOpener \/ CallPickDirOpener \/ CallRunOpen

SpecOpeners == InitOpeners /\ [][NextOpeners]_vars

-----------------------------------------------------------------------------
(* Properties of the path resolver.                                        *)

ResolveCalled == called = "resolveMatchPath"

EndsInSeparator(s) == s # <<>> /\ IsPathSeparator(s[Len(s)])

\* the part of a path after its last separator
LastSegment(s) == LET segs == Split(s, "/") IN segs[Len(segs)]

\* a "." followed by at least one character
HasExtension(seg) == \E i \in 1..(Len(seg) - 1) : seg[i] = "."

Ok(path) == [val |-> path, err |-> FALSE]

\* the flag path with its home shorthand expanded
ExpandedFlag == expandHome(matchFlag)

\* config.match_file if non-empty, "cliesp.yml" otherwise
FileOrDefault == IF cfg.MatchFile # <<>> THEN cfg.MatchFile ELSE defaultEspansoMatchFile

\* config.match_dir if non-empty, the built-in directory otherwise
DirOrDefault == IF cfg.MatchDir # <<>> THEN cfg.MatchDir ELSE defaultEspansoMatchDir

\* C1: for every non-empty flag path that ends in a path separator,
\* resolveMatchPath returns join(home-expanded flag path, effective file
\* name): a trailing separator always makes the input a directory.
C1_TrailingSeparatorIsDirectory ==
    (ResolveCalled /\ EndsInSeparator(matchFlag) /\ ~ExpandedFlag.err)
        => ret = Ok(FilepathJoin(ExpandedFlag.val, FileOrDefault))

C3_NoExtensionIsDirectory ==
    (/\ ResolveCalled
     /\ matchFlag # <<>>
     /\ ~EndsInSeparator(matchFlag)
     /\ ~HasExtension(LastSegment(matchFlag))
     /\ ~ExpandedFlag.err)
        => ret = Ok(FilepathJoin(ExpandedFlag.val, FileOrDefault))

\* C4: with no flag path, resolveMatchPath returns
\* join(expandHome(effective dir), effective file), each of the two falling
\* back to its built-in default on its own; when the home directory the
\* directory needs is not available, the call fails.
C4_NoFlagUsesConfigOrDefaults ==
    (ResolveCalled /\ matchFlag = <<>>)
        => LET e == expandHome(DirOrDefault)
           IN  IF e.err THEN ret.err
               ELSE ret = Ok(FilepathJoin(e.val, FileOrDefault))

\* no flag, no configured directory, a configured file name: the built-in
\* directory under home "/h" with the configured name
C4_Witness ==
    /\ ResolveCalled
    /\ matchFlag = <<>>
    /\ cfg.MatchDir = <<>>
    /\ cfg.MatchFile = <<"f", ".", "y">>
    /\ home = <<"/", "h">>
    /\ ret = Ok(<<"/", "h">> \o Tail(defaultEspansoMatchDir) \o <<"/", "f", ".", "y">>)

\* C5: expandHome maps "~" to exactly the home directory, "~/rest" to
\* join(home, rest), and returns every path that does not start with "~"
\* unmodified and without error.
C5_ExpandHome ==
    called = "expandHome" =>
        /\ (arg = <<"~">> /\ home # NoHome) => ret = Ok(home)
        /\ (HasPrefix(arg, <<"~", "/">>) /\ home # NoHome)
               => ret = Ok(FilepathJoin(home, SubSeq(arg, 3, Len(arg))))
        /\ (arg = <<>> \/ arg[1] # "~") => ret = Ok(arg)

\* "~/a/a" under home "/h" expands to "/h/a/a"
C5_Witness ==
    /\ called = "expandHome"
    /\ arg = <<"~", "/", "a", "/", "a">>
    /\ home = <<"/", "h">>
    /\ ret = Ok(<<"/", "h", "/", "a", "/", "a">>)

-----------------------------------------------------------------------------
(* Properties of the snippet formatter.  The fragment is read back: split  *)
(* into lines, and its quoted scalars scanned and un-escaped.              *)

SnippetCalled == called = "buildYAMLSnippet"

\* the lines of the fragment: what stands between its newline characters
FragmentLines == Split(ret.val, NL)

\* the number of occurrences of the character c in s
Count(s, c) == Cardinality({i \in 1..Len(s) : s[i] = c})

\* s without its first n characters
Drop(s, n) == SubSeq(s, n + 1, Len(s))

ListMarker == <<SP, SP, "-", SP>>
TriggerKey == <<"t","r","i","g","g","e","r",":",SP>>
TriggersKey == <<"t","r","i","g","g","e","r","s",":",SP,"[">>
ReplaceKey == <<SP,SP,SP,SP,"r","e","p","l","a","c","e",":",SP>>
BlockMarker == <<SP,SP,SP,SP,"r","e","p","l","a","c","e",":",SP,"|">>
SixSpaces == <<SP, SP, SP, SP, SP, SP>>

\* what a backslash followed by c stands for in a double-quoted scalar
Unescape(c) ==
    CASE c = DQ  -> <<DQ>>
      [] c = BS  -> <<BS>>
      [] c = "n" -> <<NL>>
      [] c = "t" -> <<TAB>>
      [] OTHER   -> <<"invalid escape">>

Malformed == [ok |-> FALSE, val |-> <<>>, next |-> 0]

\* Scans a double-quoted scalar whose text starts at s[i], up to the first
\* double quote that no backslash escapes: the un-escaped text and the
\* position after the closing quote.
RECURSIVE ScanScalar(_, _, _)
ScanScalar(s, i, acc) ==
    IF i > Len(s) THEN Malformed
    ELSE IF s[i] = DQ THEN [ok |-> TRUE, val |-> acc, next |-> i + 1]
    ELSE IF s[i] = BS THEN
        IF i + 1 > Len(s) THEN Malformed
        ELSE ScanScalar(s, i + 2, acc \o Unescape(s[i + 1]))
    ELSE ScanScalar(s, i + 1, Append(acc, s[i]))

\* Reads s as double-quoted scalars separated by ", ": the sequence of their
\* un-escaped texts, or <<Malformed>> if s is not of that form.
RECURSIVE ReadScalars(_, _, _)
ReadScalars(s, i, acc) ==
    IF i > Len(s) \/ s[i] # DQ THEN <<Malformed>>
    ELSE LET r == ScanScalar(s, i + 1, <<>>)
         IN  IF ~r.ok THEN <<Malformed>>
             ELSE IF r.next = Len(s) + 1 THEN Append(acc, r.val)
             ELSE IF r.next + 1 <= Len(s) /\ SubSeq(s, r.next, r.next + 1) = <<",", SP>>
                  THEN ReadScalars(s, r.next + 2, Append(acc, r.val))
             ELSE <<Malformed>>

\* the double-quoted scalars of the trigger line, un-escaped
TriggersReadBack ==
    LET line == Drop(FragmentLines[2], Len(ListMarker))
    IN  IF HasPrefix(line, TriggerKey) THEN ReadScalars(Drop(line, Len(TriggerKey)), 1, <<>>)
        ELSE IF HasPrefix(line, TriggersKey) /\ line[Len(line)] = "]"
             THEN ReadScalars(SubSeq(line, Len(TriggersKey) + 1, Len(line) - 1), 1, <<>>)
        ELSE <<Malformed>>

C7_LiteralBlock ==
    (SnippetCalled /\ Contains(replaceStr, NL)) =>
        LET k == Count(replaceStr, NL)
            lines == FragmentLines
        IN  /\ Len(lines) = 3 + (k + 1) + 1
            /\ lines[1] = <<>>
            /\ lines[3] = BlockMarker
            /\ lines[Len(lines)] = <<>>
            /\ \A i \in 1..(k + 1) :
                   /\ HasPrefix(lines[3 + i], SixSpaces)
                   /\ Drop(lines[3 + i], 6) = Split(replaceStr, NL)[i]
            /\ StringsJoin([i \in 1..(k + 1) |-> Drop(lines[3 + i], 6)], <<NL>>) = replaceStr

\* "n\n\n": an empty segment in the middle and one from the trailing newline
C7_Witness ==
    /\ SnippetCalled
    /\ replaceStr = <<"n", NL, NL>>
    /\ Len(FragmentLines) = 7
    /\ FragmentLines[4] = SixSpaces \o <<"n">>
    /\ FragmentLines[5] = SixSpaces
    /\ FragmentLines[6] = SixSpaces

\* C8: for a replacement without a newline character (the empty string
\* included) the replacement is the single line `    replace: ` + the quoted
\* replacement + newline, never a literal block; the fragment is an empty
\* first line, the trigger line and the replace line, and ends with a
\* newline.
C8_SingleLine ==
    (SnippetCalled /\ ~Contains(replaceStr, NL)) =>
        LET lines == FragmentLines
        IN  /\ Len(lines) = 4
            /\ lines[1] = <<>>
            /\ HasPrefix(lines[2], ListMarker)
            /\ lines[3] = ReplaceKey \o Quote(replaceStr)
            /\ lines[3] # BlockMarker
            /\ lines[4] = <<>>
            /\ ret.val[Len(ret.val)] = NL

\* the empty replacement is written as `    replace: ""`
C8_Witness ==
    /\ SnippetCalled
    /\ replaceStr = <<>>
    /\ Len(FragmentLines) = 4
    /\ FragmentLines[3] = ReplaceKey \o <<DQ, DQ>>

-----------------------------------------------------------------------------
(* Properties of the file helper.                                          *)

EnsureCalled == called = "ensureFileWithHeader"

\* s ends with the text suffix
HasSuffix(s, suffix) ==
    /\ Len(s) >= Len(suffix)
    /\ SubSeq(s, Len(s) - Len(suffix) + 1, Len(s)) = suffix

HeaderFirstWords ==
    <<"#",SP,"e","s","p","a","n","s","o",SP,"m","a","t","c","h",SP,"f","i","l","e">>

\* a newline, and then the line "matches:"
MatchesLine == <<NL, "m","a","t","c","h","e","s",":", NL>>

C13_ExistingFileUntouched ==
    [][called' = "ensureFileWithHeader" =>
           /\ fileKind = "file" =>
                  /\ fileKind' = "file"
                  /\ fileData' = fileData
                  /\ ~ret'.err
           /\ (EnsureCalled /\ ~ret.err /\ ensureRet.stat \in {"ok", "notExist"}) =>
                  /\ fileKind' = fileKind
                  /\ fileData' = fileData
                  /\ parentDirs' = parentDirs
                  /\ ~ret'.err]_vars

\* a file without the header, "m:\n", after two calls: still "m:\n"
C13_Witness ==
    /\ EnsureCalled
    /\ calls = 2
    /\ fileOrigin = [kind |-> "file", data |-> <<"m", ":", NL>>, dirs |-> TRUE]
    /\ ensureRet.stat = "ok"
    /\ ~ret.err
    /\ fileKind = "file"
    /\ fileData = <<"m", ":", NL>>

\* C23: whenever ensureFileWithHeader returns nil a regular file is at the
\* path afterwards, whatever the existence check reported: nothing found,
\* an error that is not "does not exist", or a directory found at the path
C23_NilMeansRegularFile ==
    (EnsureCalled /\ ~ensureRet.err) => fileKind = "file"

-----------------------------------------------------------------------------
(* Properties of the multiline readers.                                    *)

\* the least number of a non-empty set of numbers
Least(S) == CHOOSE n \in S : \A m \in S : n <= m

\* the lines of stdin before the first line, from the line numbered from
\* on, that is the line stop; all of them if there is none
LinesBefore(stop, from) ==
    LET at == {i \in from..Len(stdin) : stdin[i] = stop}
    IN  SubSeq(stdin, 1, IF at = {} THEN Len(stdin) ELSE Least(at) - 1)

\* the text has a newline character directly after another
TwoNewlines(text) == \E i \in 1..(Len(text) - 1) : text[i] = NL /\ text[i + 1] = NL

C20_EOFReader ==
    (called = "promptMultilineEOF" /\ ~ret.err) =>
        /\ ret.val = StringsJoin(LinesBefore(<<"E", "O", "F">>, 1), <<NL>>)
        /\ Count(ret.val, NL) + 1 <= (IF Len(stdin) = 0 THEN 1 ELSE Len(stdin))
        /\ (\A i \in 1..Len(stdin) : stdin[i] # <<"E", "O", "F">>)
               => ret.val = StringsJoin(stdin, <<NL>>)

\* the lines "", " EOF", "EOF", "n": the result is "\n EOF"
C20_Witness ==
    /\ called = "promptMultilineEOF"
    /\ ~ret.err
    /\ stdin = << <<>>, <<SP, "E", "O", "F">>, <<"E", "O", "F">>, <<"n">> >>
    /\ ret.val = <<NL, SP, "E", "O", "F">>

-----------------------------------------------------------------------------
(* Properties of a run of main.                                            *)

\* the string resolveMatchPath has to expand: the flag path if there is
\* one, the effective directory otherwise
StringToExpand == IF matchFlag # <<>> THEN matchFlag ELSE DirOrDefault

\* C10: resolveMatchPath fails exactly when the home directory cannot be
\* determined and the string it has to expand is "~" or starts with "~/";
\* it then returns an error with the empty path.  In main the error ends
\* the run with exit status 1 before the target file or a directory is
\* created, before any prompt and before anything is appended or opened.
C10_ResolutionError ==
    called = "resolveMatchPath" =>
        /\ ret.err <=> /\ home = NoHome
                       /\ \/ StringToExpand = <<"~">>
                          \/ HasPrefix(StringToExpand, <<"~", "/">>)
        /\ ret.err =>
               /\ ret.val = <<>>
               /\ pc = "exited"
               /\ exitCode = 1
               /\ filePath = <<>>
               /\ fileKind = fileBefore.kind
               /\ fileData = fileBefore.data
               /\ parentDirs = fileBefore.dirs
               /\ prompts = 0
               /\ opened = <<>>
        /\ ~ret.err => ret.val # <<>>

\* no home directory and the default directory "~/Library/...": the run
\* has ended with status 1 and the absent target is still absent
C10_Witness ==
    /\ called = "resolveMatchPath"
    /\ home = NoHome
    /\ matchFlag = <<>>
    /\ cfg.MatchDir = <<>>
    /\ ret.err
    /\ pc = "exited"
    /\ exitCode = 1
    /\ fileKind = "absent"
    /\ ~parentDirs

\* where the tokens of a line start: a character that is no white space,
\* at the start of the line or after white space
TokenStarts(line) ==
    {i \in 1..Len(line) : ~IsSpace(line[i]) /\ (i = 1 \/ IsSpace(line[i - 1]))}

\* where the token that starts at i ends
TokenEnd(line, i) ==
    CHOOSE j \in i..Len(line) :
        /\ \A k \in i..j : ~IsSpace(line[k])
        /\ j = Len(line) \/ IsSpace(line[j + 1])

\* the white-space-separated tokens of a line, in the order of the line
Tokens(line) ==
    LET starts == TokenStarts(line)
        nth(k) == CHOOSE i \in starts : Cardinality({j \in starts : j < i}) = k - 1
    IN  [k \in 1..Cardinality(starts) |->
            SubSeq(line, nth(k), TokenEnd(line, nth(k)))]

\* the content the file helper left in this run
ContentEnsured ==
    IF fileBefore.kind = "absent" /\ fileKind = "file" THEN header ELSE fileBefore.data

\* C15: buildYAMLSnippet is never invoked with an empty trigger list: when
\* the trigger line holds no token main exits with status 1 after that one
\* prompt, without the replacement prompt and with nothing appended; when
\* the formatter is invoked its trigger list is the tokens of the line in
\* the order of the line, each non-empty and free of white space.
C15_TriggersValidated ==
    /\ pc \in {"promptReplace", "append"} => triggers # <<>>
    /\ (prompts >= 1 /\ Tokens(triggersLine) = <<>>) =>
           /\ pc = "exited"
           /\ exitCode = 1
           /\ prompts = 1
           /\ fragments = <<>>
           /\ fileData = ContentEnsured
    /\ (pc = "append" \/ fragments # <<>>) =>
           /\ triggers = Tokens(triggersLine)
           /\ \A i \in 1..Len(triggers) :
                  /\ triggers[i] # <<>>
                  /\ \A k \in 1..Len(triggers[i]) : ~IsSpace(triggers[i][k])
    /\ fragments # <<>> =>
           fragments[Len(fragments)] = buildYAMLSnippet(Tokens(triggersLine), replaceStr)

\* the line ":a  :b<TAB>:a" has given the triggers ":a", ":b", ":a"
C15_Witness ==
    /\ pc = "append"
    /\ triggersLine = <<":", "a", SP, SP, ":", "b", TAB, ":", "a">>
    /\ triggers = << <<":", "a">>, <<":", "b">>, <<":", "a">> >>

\* the run has got past path resolution and the file helper
PastPreparation == ensureRet.stat # "" /\ ~ensureRet.err

InPromptingMode == pc \in {"promptTriggers", "promptReplace", "append"}

\* C16: --open and --openDir are mutually exclusive: checkOpenConflict
\* returns an error exactly when both are set, and a run with both set
\* runs no opener, prints no prompt and appends no entry; once its path is
\* resolved and its file prepared it exits with status 2, which no other
\* run does.
C16_OpenFlagsExclusive ==
    /\ \A o, d \in BOOLEAN : checkOpenConflict(o, d) <=> (o /\ d)
    /\ (openFlag /\ dirFlag) =>
           /\ opened = <<>>
           /\ prompts = 0
           /\ fragments = <<>>
           /\ pc # "open"
           /\ ~InPromptingMode
           /\ PastPreparation => fileData = ContentEnsured
           /\ (PastPreparation /\ pc # "conflict") => (pc = "exited" /\ exitCode = 2)
    /\ exitCode = 2 => (openFlag /\ dirFlag /\ pc = "exited" /\ PastPreparation)
    /\ (PastPreparation /\ pc = "exited" /\ ~(openFlag /\ dirFlag)) => exitCode # 2

\* both flags and an absent target: the run has ended with status 2 and has
\* left the file with the header
C16_Witness ==
    /\ openFlag
    /\ dirFlag
    /\ pc = "exited"
    /\ exitCode = 2
    /\ fileBefore.kind = "absent"
    /\ fileData = header
    /\ opened = <<>>
    /\ prompts = 0

\* the parent directory of a path: what stands before its last separator
ParentOf(path) ==
    LET segs == Split(path, "/")
        above == StringsJoin(SubSeq(segs, 1, Len(segs) - 1), <<"/">>)
    IN  IF Len(segs) = 1 THEN <<".">>
        ELSE IF above = <<>> THEN <<"/">>
        ELSE above

\* the command lines open mode may run: the words of the opener picked for
\* the flag, and then the target of the flag
OpenCommands ==
    {Append(Tokens(IF openFlag THEN pickFileOpener(cfg, editor)
                   ELSE pickDirOpener(cfg, goos)),
            IF openFlag THEN filePath ELSE ParentOf(filePath)) :
        editor \in Editors, goos \in GOOSes}

MessagingResult == StringsJoin(LinesBefore(<<>>, 2), <<NL>>)
EOFResult == StringsJoin(LinesBefore(<<"E", "O", "F">>, 1), <<NL>>)

\* C21: the multiline reader is chosen by mode: "messaging" selects the
\* messaging reader and every other value, "eof" and an unrecognised one
\* included, the EOF reader; main puts "messaging" in place of an empty
\* configured mode first, so an unset mode reads as messaging and an
\* invalid non-empty one as EOF.
C21_ReaderByMode ==
    pc = "append" =>
        /\ cfg.MultilineMode = <<>> => replaceStr = MessagingResult
        /\ cfg.MultilineMode = <<"m","e","s","s","a","g","i","n","g">>
               => replaceStr = MessagingResult
        /\ cfg.MultilineMode = <<"e","o","f">> => replaceStr = EOFResult
        /\ (cfg.MultilineMode # <<>>
            /\ cfg.MultilineMode # <<"m","e","s","s","a","g","i","n","g">>)
               => replaceStr = EOFResult

\* the mode "x" and the lines "n", "": the EOF reader has read both lines
\* ("n\n"), where the messaging reader would have stopped after "n"
C21_Witness ==
    /\ pc = "append"
    /\ cfg.MultilineMode = <<"x">>
    /\ stdin = << <<"n">>, <<>> >>
    /\ replaceStr = <<"n", NL>>
    /\ replaceStr # MessagingResult

\* the steps of main after the file is prepared and before the append
AfterPreparation == {"conflict", "open", "promptTriggers", "promptReplace"}

\* a step that takes main past the preparation of the file, or that main
\* takes from there before the append: the file is prepared before it, is a
\* regular file after it, and holds the header if the run created it and
\* its previous content otherwise
PreparedStep ==
    (pc' \in AfterPreparation \cup {"append"} \/ pc \in AfterPreparation) =>
        /\ PastPreparation'
        /\ fileKind' = "file"
        /\ fileData' = ContentEnsured'
        /\ pc \in AfterPreparation =>
              UNCHANGED <<fileKind, fileData, parentDirs, fragments>>

\* C24: the file is ensured before the conflict check and before any
\* prompt: every run past path resolution and file preparation leaves the
\* target a regular file, also when it then exits with status 2 for
\* conflicting flags, runs an opener, or exits with status 1 at a prompt,
\* and these runs leave in it the header (if they created it) or its
\* previous content and change nothing else
C24_FilePreparedFirst == [][PreparedStep]_vars

\* C24 apart from the two nil returns of C23 (the existence check failing
\* with another error than "does not exist", a directory at the path)
C24_ApartFromC23 ==
    [][(ensureRet'.stat # "error" /\ fileBefore'.kind # "dir") => PreparedStep]_vars

-----------------------------------------------------------------------------
(* Properties of the openers.                                              *)

\* s holds nothing but white space
Blank(s) == \A i \in 1..Len(s) : IsSpace(s[i])

\* s from its first to its last character that is no white space
Stripped(s) ==
    LET I == {i \in 1..Len(s) : ~IsSpace(s[i])}
    IN  IF I = {} THEN <<>>
        ELSE SubSeq(s, CHOOSE i \in I : \A k \in I : i <= k,
                       CHOOSE i \in I : \A k \in I : k <= i)

\* the target main hands to runOpen
OpenerTarget == IF dirFlag THEN ParentOf(filePath) ELSE filePath

-----------------------------------------------------------------------------
(* Properties of runs one after the other on one target path.              *)

\* the texts of a sequence, one after the other
RECURSIVE Concat(_)
Concat(texts) == IF texts = <<>> THEN <<>> ELSE Head(texts) \o Concat(Tail(texts))

\* what the file held before the first run, or the header if it was absent
ContentAtFirst == IF fileOrigin.kind = "file" THEN fileOrigin.data ELSE header

\* C14: after any sequence of runs on the target path, the file's content
\* is its content before the first run (or the header, if the file was
\* absent) followed by the fragments of exactly those runs that finished
\* successfully in prompting mode, in run order.
C14_PureConcatenation ==
    (pc = "exited" /\ fileKind = "file")
        => fileData = ContentAtFirst \o Concat(fragments)

\* C14, its last sentence: each run appends at most one fragment, and no
\* step of a run truncates, rewrites or reorders bytes that were in the
\* file: the content before a step is the beginning of the content after it.
C14_NoByteRewritten ==
    [][/\ fileKind = "file" => (fileKind' = "file" /\ HasPrefix(fileData', fileData))
       /\ Len(fragments') <= Len(fragments) + 1
       /\ (pc' # "loadConfig" /\ fragments' # fragments) => pc = "append"]_vars

\* C18: whenever a fragment is appended to a file that did not exist before
\* the first run, the content the file has at that moment starts with the
\* full header, which ends in the line "matches:".
C18_HeaderBeforeFragments ==
    [][(/\ pc = "append"
        /\ fragments' # fragments
        /\ fileOrigin.kind = "absent")
           => HasPrefix(fileData, header)]_vars

=============================================================================
